---- MODULE Spec2Model ----
\* Model of little_cheesemonger/_cli.py: the command-line entry point
\* (entrypoint) and the KEY=VALUE parser (process_kwargs).
EXTENDS Integers, Sequences, FiniteSets

\* ---------------------------------------------------------------------------
\* Bounds of the model
\* ---------------------------------------------------------------------------

\* longest raw string handed to process_kwargs on its own
MaxStrLen == 3

\* most --loader-kwarg options on one command line
MaxKwargs == 2

\* most --loader-arg options on one command line
MaxArgs == 2

SeqsUpTo(S, n) == UNION {[1..k -> S] : k \in 0..n}

\* ---------------------------------------------------------------------------
\* Strings are sequences of one-character strings
\* ---------------------------------------------------------------------------

Alphabet == {"x", "="}

RawStrings == SeqsUpTo(Alphabet, MaxStrLen)

\* the tuples of raw strings process_kwargs is exercised on directly
RawKwargTuples == SeqsUpTo(RawStrings, MaxKwargs)

\* ---------------------------------------------------------------------------
\* Exceptions
\* ---------------------------------------------------------------------------

\* An exception is its class, the fixed text of its message and the values
\* formatted into the message.
Exc(cls, text, detail) == [cls |-> cls, text |-> text, detail |-> detail]

NoExc == Exc("None", "", <<>>)

\* str(e): the description of an exception
Str(e) == <<e.text>> \o e.detail

LittleCheesemongerError(text, detail) == Exc("LittleCheesemongerError", text, detail)

\* the classes each exception class derives from (itself included)
LittleCheesemongerErrorBases == {"LittleCheesemongerError", "Exception", "BaseException"}

Bases(cls) ==
    CASE cls = "LittleCheesemongerError" -> LittleCheesemongerErrorBases
      [] cls = "ValueError" -> {"ValueError", "Exception", "BaseException"}
      [] cls = "KeyboardInterrupt" -> {"KeyboardInterrupt", "BaseException"}
      [] OTHER -> {}

IsInstance(e, cls) == cls \in Bases(e.cls)

\* the three messages _cli.py itself raises
InvalidArgumentCombination ==
    LittleCheesemongerError(
        "Additional loader arguments can only be used with a custom loader.", <<>>)

MalformedArgument(raw_kwarg) ==
    LittleCheesemongerError(
        "Invalid keyword argument received for --loader-kwarg option. Keyword arguments must be in KEY=VALUE format.",
        raw_kwarg)

LoaderExecutionFailed(ldr, e) ==
    LittleCheesemongerError("Error executing loader", <<ldr>> \o Str(e))

\* ---------------------------------------------------------------------------
\* process_kwargs
\* ---------------------------------------------------------------------------

EmptyDict == [k \in {} |-> <<>>]

\* mutant: kwargs.setdefault(key, value), an existing key keeps its first value
DictSetDefault(d, key, value) ==
    [k \in (DOMAIN d) \cup {key} |-> IF k \in DOMAIN d THEN d[k] ELSE value]

\* kwargs[key] = value
DictSet(d, key, value) ==
    [k \in (DOMAIN d) \cup {key} |-> IF k = key THEN value ELSE d[k]]

RECURSIVE SplitScan(_, _, _, _, _)
SplitScan(s, sep, i, cur, parts) ==
    IF i > Len(s) THEN Append(parts, cur)
    ELSE IF s[i] = sep THEN SplitScan(s, sep, i + 1, <<>>, Append(parts, cur))
    ELSE SplitScan(s, sep, i + 1, Append(cur, s[i]), parts)

RECURSIVE SplitScanMax1(_, _, _, _, _)
SplitScanMax1(s, sep, i, cur, parts) ==
    IF i > Len(s) THEN Append(parts, cur)
    ELSE IF s[i] = sep /\ parts = <<>>
         THEN SplitScanMax1(s, sep, i + 1, <<>>, Append(parts, cur))
    ELSE SplitScanMax1(s, sep, i + 1, Append(cur, s[i]), parts)

\* mutant: raw_kwarg.split("=", 1), which cuts at the first separator only
split_maxsplit1(s, sep) == SplitScanMax1(s, sep, 1, <<>>, <<>>)

\* s.split(sep): s cut at every occurrence of sep
split(s, sep) == SplitScan(s, sep, 1, <<>>, <<>>)

\* the for loop of process_kwargs from its i-th string on
RECURSIVE ProcessKwargsLoop(_, _, _)
ProcessKwargsLoop(raw_kwargs, i, kwargs) ==
    IF i > Len(raw_kwargs)
    THEN [ok |-> TRUE, kwargs |-> kwargs, exc |-> NoExc]
    ELSE LET parts == split(raw_kwargs[i], "=")
         IN  IF Len(parts) /= 2
             THEN [ok |-> FALSE, kwargs |-> EmptyDict,
                   exc |-> MalformedArgument(raw_kwargs[i])]
             ELSE ProcessKwargsLoop(raw_kwargs, i + 1,
                                    DictSet(kwargs, parts[1], parts[2]))

\* process_kwargs(raw_kwargs): the mapping returned, or the error raised
process_kwargs(raw_kwargs) == ProcessKwargsLoop(raw_kwargs, 1, EmptyDict)

\* ---------------------------------------------------------------------------
\* Command-line inputs of entrypoint
\* ---------------------------------------------------------------------------

\* Optional[str]: None, or a value that is present
None == <<>>
Some(v) == <<v>>

Directories == {".", "proj"}

\* loader import paths, as their dot-separated segments
LoaderPaths == {<<"pkg", "mod", "fn">>, <<"pkg", "mod", "other">>, <<"pkg", "mod", "nope">>}

LoaderImportPaths == {None} \cup {Some(p) : p \in LoaderPaths}

LoaderArgValues == {"a", "b"}

LoaderArgTuples == SeqsUpTo(LoaderArgValues, MaxArgs)

\* --loader-kwarg values given on the command line: x=1, x=2, bad, a=b=c
CliRawStrings ==
    {<<"x", "=", "1">>, <<"x", "=", "2">>, <<"b", "a", "d">>, <<"a", "=", "b", "=", "c">>}

CliRawKwargTuples == SeqsUpTo(CliRawStrings, MaxKwargs)

\* ---------------------------------------------------------------------------
\* Collaborators: what a call can come back with
\* ---------------------------------------------------------------------------

Ret(value) == [kind |-> "return", value |-> value, dict |-> EmptyDict, exc |-> NoExc]
RetDict(d) == [kind |-> "return", value |-> "dict", dict |-> d, exc |-> NoExc]
Raise(e) == [kind |-> "raise", value |-> "", dict |-> EmptyDict, exc |-> e]

\* what code outside _cli.py can raise: an ordinary exception, the package's
\* own error class, and an exception that does not derive from Exception
ForeignExceptions ==
    {Exc("ValueError", "bad value", <<>>),
     Exc("LittleCheesemongerError", "refused", <<>>),
     Exc("KeyboardInterrupt", "", <<>>)}

\* the module-level default configuration is the object TEMPLATE; a loader,
\* custom or default, is code outside entrypoint and may build a new mapping
\* or hand back TEMPLATE
LoaderOutcomes ==
    {Ret(c) : c \in {"cfgA", "cfgB", "TEMPLATE"}} \cup {Raise(e) : e \in ForeignExceptions}

DefaultLoaderOutcomes ==
    {Ret(c) : c \in {"cfgA", "cfgB", "TEMPLATE"}} \cup {Raise(e) : e \in ForeignExceptions}

\* the contents the template mapping can have
TemplateContents == {"default", "mutated"}

\* a collaborator runs in the same process and can reach the module-level
\* template: the contents it may leave the template with
TemplateAfterCall(content) == TemplateContents

RunOutcomes == {Ret("None")} \cup {Raise(e) : e \in ForeignExceptions}

\* import_loader_function: the modules that can be imported and their attributes
ImportableModules == {<<"pkg", "mod">>}
ModuleAttributes == {"fn", "other"}

LoaderNotFound(import_path) == LittleCheesemongerError("LoaderNotFound", import_path)

import_loader_function(import_path) ==
    LET n == Len(import_path)
    IN  IF /\ SubSeq(import_path, 1, n - 1) \in ImportableModules
           /\ import_path[n] \in ModuleAttributes
        THEN Ret(import_path[n])
        ELSE Raise(LoaderNotFound(import_path))

\* mutant: no copy is taken, the name is bound to the object itself
copy_alias(obj) == obj

\* copy.copy(obj): a new object
copy_copy(obj) == "COPY"

\* ---------------------------------------------------------------------------
\* State
\* ---------------------------------------------------------------------------

VARIABLES
    pc,                    \* the statement entrypoint is at
    directory, loader_import_path, loader_args, loader_kwargs_raw, debug,
    log_level,             \* level set on the "little_cheesemonger" logger
    loader,                \* the resolved callable
    loader_kwargs,         \* the mapping process_kwargs returned
    configuration,         \* the object the local `configuration` refers to
    raised,                \* the exception in flight inside the try block
    calls,                 \* the calls made to collaborators so far, in order
    outcome,               \* how the invocation ended
    DEFAULT_CONFIGURATION, \* content of the module-level template mapping
    kw_raw, kw_result      \* a direct call of process_kwargs

inputs == <<directory, loader_import_path, loader_args, loader_kwargs_raw, debug>>
locals == <<loader, loader_kwargs, configuration>>
direct == <<kw_raw, kw_result>>
vars == <<pc, inputs, log_level, locals, raised, calls, outcome,
          DEFAULT_CONFIGURATION, direct>>

Call(fn, target, args, kwargs, cfg, out) ==
    [fn |-> fn, target |-> target, args |-> args, kwargs |-> kwargs,
     cfg |-> cfg, out |-> out]

Outcome(kind, status, e, trace) ==
    [kind |-> kind, status |-> status, exc |-> e, trace |-> trace]

Running == Outcome("running", 0, NoExc, FALSE)

NotCalled == [called |-> FALSE, ok |-> FALSE, kwargs |-> EmptyDict, exc |-> NoExc]

Idle ==
    /\ pc = "idle"
    /\ directory = "."
    /\ loader_import_path = None
    /\ loader_args = <<>>
    /\ loader_kwargs_raw = <<>>
    /\ debug = FALSE
    /\ log_level = "NOTSET"
    /\ loader = "unset"
    /\ loader_kwargs = EmptyDict
    /\ configuration = "unset"
    /\ raised = NoExc
    /\ calls = <<>>
    /\ outcome = Running

Init ==
    /\ Idle
    /\ DEFAULT_CONFIGURATION = "default"
    /\ kw_raw = <<>>
    /\ kw_result = NotCalled

\* ---------------------------------------------------------------------------
\* entrypoint, statement by statement
\* ---------------------------------------------------------------------------

\* mutant: the keyword strings are parsed before the loader is imported
SequelKwargsFirst(stmt, custom) ==
    CASE stmt = "validate" -> "copy"
      [] stmt = "copy" -> IF custom THEN "kwargs" ELSE "default"
      [] stmt = "kwargs" -> "import"
      [] stmt = "import" -> "loader"
      [] stmt = "loader" -> "run"
      [] stmt = "default" -> "run"
      [] stmt = "run" -> "done"

\* the statement that follows `stmt` inside the try block when `stmt` raises
\* nothing; custom is the test `loader_import_path is not None`
Sequel(stmt, custom) ==
    CASE stmt = "validate" -> "copy"
      [] stmt = "copy" -> IF custom THEN "import" ELSE "default"
      [] stmt = "import" -> "kwargs"
      [] stmt = "kwargs" -> "loader"
      [] stmt = "loader" -> "run"
      [] stmt = "default" -> "run"
      [] stmt = "run" -> "done"

Custom == loader_import_path /= None

\* an exception leaves the try block for the except clause of line 71
Fail(e) ==
    /\ raised' = e
    /\ pc' = "except"

\* click calls entrypoint with the parsed command line; the log level is set
Invoke ==
    /\ pc = "idle"
    /\ directory' \in Directories
    /\ loader_import_path' \in LoaderImportPaths
    /\ loader_args' \in LoaderArgTuples
    /\ loader_kwargs_raw' \in CliRawKwargTuples
    /\ debug' \in BOOLEAN
    /\ log_level' = IF debug' THEN "DEBUG" ELSE "INFO"
    /\ pc' = "validate"
    /\ UNCHANGED <<locals, raised, calls, outcome, DEFAULT_CONFIGURATION, direct>>

\* mutant: `and` in place of `or`
ExtrasBoth(args, kwargs_raw) == args /= <<>> /\ kwargs_raw /= <<>>

\* loader_args or loader_kwargs_raw
Extras(args, kwargs_raw) == args /= <<>> \/ kwargs_raw /= <<>>

Validate ==
    /\ pc = "validate"
    /\ IF Extras(loader_args, loader_kwargs_raw) /\ loader_import_path = None
       THEN Fail(InvalidArgumentCombination)
       ELSE /\ pc' = Sequel("validate", Custom)
            /\ UNCHANGED raised
    /\ UNCHANGED <<inputs, log_level, locals, calls, outcome,
                   DEFAULT_CONFIGURATION, direct>>

CopyDefault ==
    /\ pc = "copy"
    /\ configuration' = copy_copy("TEMPLATE")
    /\ pc' = Sequel("copy", Custom)
    /\ UNCHANGED <<inputs, log_level, loader, loader_kwargs, raised, calls,
                   outcome, DEFAULT_CONFIGURATION, direct>>

\* mutant: the import sits inside the inner try, so its failure is wrapped
ImportLoaderWrapped ==
    /\ pc = "import"
    /\ LET out == import_loader_function(loader_import_path[1])
       IN  /\ calls' = Append(calls, Call("import_loader_function",
                                          "import_loader_function",
                                          loader_import_path[1], EmptyDict, "", out))
           /\ IF out.kind = "return"
              THEN /\ loader' = out.value
                   /\ pc' = Sequel("import", Custom)
                   /\ UNCHANGED raised
              ELSE /\ Fail(LoaderExecutionFailed("unset", out.exc))
                   /\ UNCHANGED loader
    /\ DEFAULT_CONFIGURATION' \in TemplateAfterCall(DEFAULT_CONFIGURATION)
    /\ UNCHANGED <<inputs, log_level, loader_kwargs, configuration, outcome,
                   direct>>

ImportLoader ==
    /\ pc = "import"
    /\ LET out == import_loader_function(loader_import_path[1])
       IN  /\ calls' = Append(calls, Call("import_loader_function",
                                          "import_loader_function",
                                          loader_import_path[1], EmptyDict, "", out))
           /\ IF out.kind = "return"
              THEN /\ loader' = out.value
                   /\ pc' = Sequel("import", Custom)
                   /\ UNCHANGED raised
              ELSE /\ Fail(out.exc)
                   /\ UNCHANGED loader
    /\ DEFAULT_CONFIGURATION' \in TemplateAfterCall(DEFAULT_CONFIGURATION)
    /\ UNCHANGED <<inputs, log_level, loader_kwargs, configuration, outcome,
                   direct>>

ProcessKwargs ==
    /\ pc = "kwargs"
    /\ LET r == process_kwargs(loader_kwargs_raw)
           out == IF r.ok THEN RetDict(r.kwargs) ELSE Raise(r.exc)
       IN  /\ calls' = Append(calls, Call("process_kwargs", "process_kwargs",
                                          <<>>, EmptyDict, "", out))
           /\ IF r.ok
              THEN /\ loader_kwargs' = r.kwargs
                   /\ pc' = Sequel("kwargs", Custom)
                   /\ UNCHANGED raised
              ELSE /\ Fail(r.exc)
                   /\ UNCHANGED loader_kwargs
    /\ UNCHANGED <<inputs, log_level, loader, configuration, outcome,
                   DEFAULT_CONFIGURATION, direct>>

\* mutant: the package's own errors pass through the handler unwrapped
LoaderHandlerPassOwn(ldr, e) ==
    IF IsInstance(e, "Exception") /\ ~IsInstance(e, "LittleCheesemongerError")
    THEN LoaderExecutionFailed(ldr, e)
    ELSE e

\* except Exception as e: raise LittleCheesemongerError(...); what leaves the
\* inner try when the loader raised e
LoaderHandler(ldr, e) ==
    IF IsInstance(e, "Exception") THEN LoaderExecutionFailed(ldr, e) ELSE e

\* mutant: the result of the loader is dropped, the copy of line 54 stays
AssignedKeepCopy(current, returned) == current

\* configuration = <what the loader returned>
Assigned(current, returned) == returned

\* mutant: the positional arguments are passed without the directory
LoaderPositionalsNoDirectory(dir, args) == args

\* directory, *loader_args
LoaderPositionals(dir, args) == <<dir>> \o args

InvokeLoader ==
    /\ pc = "loader"
    /\ \E out \in LoaderOutcomes :
        /\ calls' = Append(calls, Call("loader", loader,
                                       LoaderPositionals(directory, loader_args),
                                       loader_kwargs, "", out))
        /\ IF out.kind = "return"
           THEN /\ configuration' = Assigned(configuration, out.value)
                /\ pc' = Sequel("loader", Custom)
                /\ UNCHANGED raised
           ELSE /\ Fail(LoaderHandler(loader, out.exc))
                /\ UNCHANGED configuration
    /\ DEFAULT_CONFIGURATION' \in TemplateAfterCall(DEFAULT_CONFIGURATION)
    /\ UNCHANGED <<inputs, log_level, loader, loader_kwargs, outcome, direct>>

InvokeDefault ==
    /\ pc = "default"
    /\ \E out \in DefaultLoaderOutcomes :
        /\ calls' = Append(calls, Call("default_loader", "default_loader",
                                       <<directory>>, EmptyDict, "", out))
        /\ IF out.kind = "return"
           THEN /\ configuration' = Assigned(configuration, out.value)
                /\ pc' = Sequel("default", Custom)
                /\ UNCHANGED raised
           ELSE /\ Fail(out.exc)
                /\ UNCHANGED configuration
    /\ DEFAULT_CONFIGURATION' \in TemplateAfterCall(DEFAULT_CONFIGURATION)
    /\ UNCHANGED <<inputs, log_level, loader, loader_kwargs, outcome, direct>>

\* run(configuration)
Run ==
    /\ pc = "run"
    /\ \E out \in RunOutcomes :
        /\ calls' = Append(calls, Call("run", "run", <<>>, EmptyDict,
                                       configuration, out))
        /\ IF out.kind = "return"
           THEN /\ pc' = Sequel("run", Custom)
                /\ outcome' = Outcome("returned", 0, NoExc, FALSE)
                /\ UNCHANGED raised
           ELSE /\ Fail(out.exc)
                /\ UNCHANGED outcome
    /\ DEFAULT_CONFIGURATION' \in TemplateAfterCall(DEFAULT_CONFIGURATION)
    /\ UNCHANGED <<inputs, log_level, locals, direct>>

\* mutant: except Exception
CaughtAnyException(e) == IsInstance(e, "Exception")

\* except LittleCheesemongerError as e
Caught(e) == IsInstance(e, "LittleCheesemongerError")

\* the except clause: log the error and exit(1), or let the exception go
Except ==
    /\ pc = "except"
    /\ outcome' = IF Caught(raised)
                  THEN Outcome("exit", 1, raised, debug)
                  ELSE Outcome("propagated", -1, raised, FALSE)
    /\ pc' = "done"
    /\ UNCHANGED <<inputs, log_level, locals, raised, calls,
                   DEFAULT_CONFIGURATION, direct>>

\* the invocation is over and its frame is gone; the module-level template stays
ReturnToCaller ==
    /\ pc = "done"
    /\ pc' = "idle"
    /\ directory' = "."
    /\ loader_import_path' = None
    /\ loader_args' = <<>>
    /\ loader_kwargs_raw' = <<>>
    /\ debug' = FALSE
    /\ log_level' = log_level
    /\ loader' = "unset"
    /\ loader_kwargs' = EmptyDict
    /\ configuration' = "unset"
    /\ raised' = NoExc
    /\ calls' = <<>>
    /\ outcome' = Running
    /\ UNCHANGED <<DEFAULT_CONFIGURATION, direct>>

Next ==
    \/ Invoke
    \/ Validate
    \/ CopyDefault
    \/ ImportLoader
    \/ ProcessKwargs
    \/ InvokeLoader
    \/ InvokeDefault
    \/ Run
    \/ Except
    \/ ReturnToCaller

Spec == Init /\ [][Next]_vars

\* ---------------------------------------------------------------------------
\* process_kwargs called on its own
\* ---------------------------------------------------------------------------

InitKwargs ==
    /\ Idle
    /\ DEFAULT_CONFIGURATION = "default"
    /\ kw_raw \in RawKwargTuples
    /\ kw_result = NotCalled

CallProcessKwargs ==
    /\ pc = "idle"
    /\ kw_result = NotCalled
    /\ LET r == process_kwargs(kw_raw)
       IN  kw_result' = [called |-> TRUE, ok |-> r.ok, kwargs |-> r.kwargs, exc |-> r.exc]
    /\ UNCHANGED <<pc, inputs, log_level, locals, raised, calls, outcome,
                   DEFAULT_CONFIGURATION, kw_raw>>

NextKwargs == CallProcessKwargs

SpecKwargs == InitKwargs /\ [][NextKwargs]_vars

\* ---------------------------------------------------------------------------
\* Vocabulary of the properties
\* ---------------------------------------------------------------------------

CallsTo(fn) == {i \in 1..Len(calls) : calls[i].fn = fn}

\* the names of the collaborators called so far, in call order
Fns == [i \in 1..Len(calls) |-> calls[i].fn]

IsPrefix(s, t) == Len(s) <= Len(t) /\ \A i \in 1..Len(s) : s[i] = t[i]

EqCount(s) == Cardinality({i \in 1..Len(s) : s[i] = "="})

WellFormed(s) == EqCount(s) = 1

EqPos(s) == CHOOSE i \in 1..Len(s) : s[i] = "="

KeyOf(s) == SubSeq(s, 1, EqPos(s) - 1)

ValueOf(s) == SubSeq(s, EqPos(s) + 1, Len(s))

AllWellFormed(raw) == \A i \in 1..Len(raw) : WellFormed(raw[i])

FirstMalformed(raw) ==
    CHOOSE i \in 1..Len(raw) :
        ~WellFormed(raw[i]) /\ \A j \in 1..(i - 1) : WellFormed(raw[j])

LastWithKey(raw, k) ==
    CHOOSE i \in 1..Len(raw) :
        KeyOf(raw[i]) = k /\ \A j \in (i + 1)..Len(raw) : KeyOf(raw[j]) /= k

\* d is the mapping the well-formed tuple raw denotes, the last duplicate winning
Denotes(d, raw) ==
    /\ DOMAIN d = {KeyOf(raw[i]) : i \in 1..Len(raw)}
    /\ \A k \in DOMAIN d : d[k] = ValueOf(raw[LastWithKey(raw, k)])

MalformedText ==
    "Invalid keyword argument received for --loader-kwarg option. Keyword arguments must be in KEY=VALUE format."

ExtrasWithoutLoader ==
    /\ pc /= "idle"
    /\ loader_import_path = None
    /\ (loader_args /= <<>> \/ loader_kwargs_raw /= <<>>)

\* ---------------------------------------------------------------------------
\* C1
\* ---------------------------------------------------------------------------

\* C1: loader arguments (positional or keyword) without a loader reference
\* end the invocation with the invalid-combination error and exit status 1,
\* and no collaborator (import_loader_function, process_kwargs, a loader,
\* default_loader, run) is ever called.
C1_FailFast ==
    ExtrasWithoutLoader =>
        /\ calls = <<>>
        /\ pc \in {"validate", "except", "done"}
        /\ pc = "except" =>
              /\ raised.cls = "LittleCheesemongerError"
              /\ raised.text = "Additional loader arguments can only be used with a custom loader."
        /\ pc = "done" =>
              /\ outcome.kind = "exit"
              /\ outcome.status = 1
              /\ outcome.exc = raised
              /\ raised.text = "Additional loader arguments can only be used with a custom loader."

C1_Witness ==
    /\ ExtrasWithoutLoader
    /\ loader_kwargs_raw = <<>>
    /\ loader_args = <<"a">>
    /\ pc = "done"
    /\ outcome.status = 1

\* ---------------------------------------------------------------------------
\* C2
\* ---------------------------------------------------------------------------

LoaderRaised(i) == calls[i].fn = "loader" /\ calls[i].out.kind = "raise"

Wraps(w, ldr, e) ==
    /\ w.cls = "LittleCheesemongerError"
    /\ w.text = "Error executing loader"
    /\ w.detail = <<ldr, e.text>> \o e.detail

\* C2 as stated: whatever the custom loader raises is turned into
\* LoaderExecutionFailed, the invocation exits with status 1, run is not called.
C2_Original ==
    \A i \in 1..Len(calls) :
        (LoaderRaised(i) /\ pc = "done") =>
            /\ outcome.kind = "exit"
            /\ outcome.status = 1
            /\ Wraps(outcome.exc, calls[i].target, calls[i].out.exc)
            /\ CallsTo("run") = {}

\* C2 amended: a failure of the custom loader that derives from Exception
\* (the package's own error class included) is re-raised as
\* LoaderExecutionFailed naming the loader and embedding the description, and
\* the invocation exits with status 1; a failure that does not derive from
\* Exception reaches the caller unchanged; run is called in neither case.
C2_Normalized ==
    \A i \in 1..Len(calls) :
        LoaderRaised(i) =>
            LET e == calls[i].out.exc
            IN  /\ i = Len(calls)
                /\ CallsTo("run") = {}
                /\ pc \in {"except", "done"}
                /\ IF "Exception" \in Bases(e.cls)
                   THEN /\ Wraps(raised, calls[i].target, e)
                        /\ pc = "done" =>
                              /\ outcome.kind = "exit"
                              /\ outcome.status = 1
                              /\ outcome.exc = raised
                   ELSE /\ raised = e
                        /\ pc = "done" =>
                              /\ outcome.kind = "propagated"
                              /\ outcome.exc = e

C2_Witness ==
    /\ pc = "done"
    /\ Len(calls) = 3
    /\ LoaderRaised(3)
    /\ calls[3].out.exc.cls = "LittleCheesemongerError"
    /\ calls[3].target = "other"
    /\ outcome.kind = "exit"
    /\ outcome.exc.detail = <<"other", "refused">>

\* ---------------------------------------------------------------------------
\* C3
\* ---------------------------------------------------------------------------

\* C3: on a tuple of strings with exactly one '=' each, process_kwargs returns
\* the mapping whose keys are the substrings before '=' and whose value for a
\* key is the substring after '=' of the last string with that key; the empty
\* tuple gives the empty mapping.
C3_Mapping ==
    (kw_result.called /\ AllWellFormed(kw_raw)) =>
        /\ kw_result.ok
        /\ Denotes(kw_result.kwargs, kw_raw)
        /\ kw_raw = <<>> => kw_result.kwargs = EmptyDict

C3_Witness ==
    /\ kw_result.called
    /\ kw_result.ok
    /\ Len(kw_raw) = 2
    /\ AllWellFormed(kw_raw)
    /\ KeyOf(kw_raw[1]) = KeyOf(kw_raw[2])
    /\ KeyOf(kw_raw[1]) /= <<>>
    /\ ValueOf(kw_raw[1]) /= ValueOf(kw_raw[2])

\* ---------------------------------------------------------------------------
\* C4
\* ---------------------------------------------------------------------------

Rejects(r, raw) ==
    /\ ~r.ok
    /\ r.kwargs = EmptyDict
    /\ r.exc.cls = "LittleCheesemongerError"
    /\ r.exc.text = MalformedText
    /\ r.exc.detail = raw[FirstMalformed(raw)]

\* process_kwargs rejects every tuple of RawKwargTuples that has a malformed
\* string, naming the first one
ParserRejects ==
    \A raw \in RawKwargTuples :
        ~AllWellFormed(raw) => Rejects(process_kwargs(raw), raw)

\* C4: a tuple with a string that has no '=' or more than one makes
\* process_kwargs raise the malformed-argument error naming the first such
\* string and return no mapping; at the entry point such a command line ends
\* with exit status 1 and neither a loader nor run is called.
C4_Malformed ==
    /\ ParserRejects
    /\ (pc /= "idle" /\ ~AllWellFormed(loader_kwargs_raw)) =>
          /\ CallsTo("loader") = {}
          /\ CallsTo("default_loader") = {}
          /\ CallsTo("run") = {}
          /\ loader_kwargs = EmptyDict
          /\ \A i \in CallsTo("process_kwargs") :
                /\ calls[i].out.kind = "raise"
                /\ calls[i].out.dict = EmptyDict
                /\ calls[i].out.exc.text = MalformedText
                /\ calls[i].out.exc.detail =
                      loader_kwargs_raw[FirstMalformed(loader_kwargs_raw)]
                /\ raised = calls[i].out.exc
          /\ pc = "done" => (outcome.kind = "exit" /\ outcome.status = 1)

C4_Witness ==
    /\ pc = "done"
    /\ loader_kwargs_raw = <<<<"x", "=", "1">>, <<"a", "=", "b", "=", "c">>>>
    /\ CallsTo("process_kwargs") = {2}
    /\ outcome.status = 1
    /\ outcome.exc.detail = <<"a", "=", "b", "=", "c">>

\* ---------------------------------------------------------------------------
\* C5
\* ---------------------------------------------------------------------------

BareInvocation ==
    /\ pc /= "idle"
    /\ loader_import_path = None
    /\ loader_args = <<>>
    /\ loader_kwargs_raw = <<>>

\* C5: with no loader reference and no loader arguments, default_loader is
\* called exactly once, with the directory alone; import_loader_function and
\* process_kwargs are never called; and when default_loader returns, run is
\* called exactly once, with the very value default_loader returned.
C5_DefaultPath ==
    BareInvocation =>
        /\ pc \in {"validate", "copy", "default"} => calls = <<>>
        /\ pc \in {"run", "except", "done"} =>
              /\ IsPrefix(Fns, <<"default_loader", "run">>)
              /\ Len(calls) >= 1
              /\ calls[1].args = <<directory>>
              /\ calls[1].kwargs = EmptyDict
              /\ pc = "run" =>
                    /\ Len(calls) = 1
                    /\ calls[1].out.kind = "return"
                    /\ configuration = calls[1].out.value
              /\ pc = "done" => (Len(calls) = 2 <=> calls[1].out.kind = "return")
              /\ Len(calls) = 2 =>
                    /\ calls[1].out.kind = "return"
                    /\ calls[2].cfg = calls[1].out.value

C5_Witness ==
    /\ BareInvocation
    /\ pc = "done"
    /\ directory = "proj"
    /\ Len(calls) = 2
    /\ calls[1].args = <<"proj">>
    /\ calls[2].fn = "run"
    /\ calls[2].cfg = "cfgB"
    /\ outcome.kind = "returned"

\* ---------------------------------------------------------------------------
\* C6
\* ---------------------------------------------------------------------------

Resolved ==
    /\ Len(calls) >= 1
    /\ calls[1].fn = "import_loader_function"
    /\ calls[1].out.kind = "return"

\* C6: when the loader reference resolves and every keyword string parses,
\* the resolved callable is called exactly once with the directory, then the
\* positional loader arguments in their order, and the mapping process_kwargs
\* produced as keywords; default_loader is never called; the value the
\* callable returns is handed to run, once and unchanged.
C6_CustomPath ==
    (pc /= "idle" /\ Resolved /\ AllWellFormed(loader_kwargs_raw)) =>
        /\ IsPrefix(Fns, <<"import_loader_function", "process_kwargs", "loader", "run">>)
        /\ pc \in {"kwargs", "loader", "run", "except", "done"}
        /\ pc = "kwargs" <=> Len(calls) = 1
        /\ pc = "loader" <=> Len(calls) = 2
        /\ Len(calls) >= 2 =>
              /\ calls[2].out.kind = "return"
              /\ Denotes(calls[2].out.dict, loader_kwargs_raw)
        /\ Len(calls) >= 3 =>
              /\ calls[3].target = loader_import_path[1][Len(loader_import_path[1])]
              /\ Len(calls[3].args) = 1 + Len(loader_args)
              /\ calls[3].args[1] = directory
              /\ \A k \in 1..Len(loader_args) : calls[3].args[k + 1] = loader_args[k]
              /\ calls[3].kwargs = calls[2].out.dict
              /\ pc = "run" =>
                    /\ Len(calls) = 3
                    /\ calls[3].out.kind = "return"
                    /\ configuration = calls[3].out.value
              /\ pc = "done" => (Len(calls) = 4 <=> calls[3].out.kind = "return")
        /\ Len(calls) = 4 =>
              /\ calls[3].out.kind = "return"
              /\ calls[4].cfg = calls[3].out.value

C6_Witness ==
    /\ pc = "done"
    /\ directory = "."
    /\ loader_import_path = Some(<<"pkg", "mod", "other">>)
    /\ loader_args = <<"a", "b">>
    /\ loader_kwargs_raw = <<<<"x", "=", "1">>, <<"x", "=", "2">>>>
    /\ Len(calls) = 4
    /\ calls[3].target = "other"
    /\ calls[3].args = <<".", "a", "b">>
    /\ calls[3].kwargs[<<"x">>] = <<"2">>
    /\ calls[4].cfg = "cfgA"
    /\ outcome.kind = "returned"

\* ---------------------------------------------------------------------------
\* C7
\* ---------------------------------------------------------------------------

ResolutionFailed ==
    /\ Len(calls) >= 1
    /\ calls[1].fn = "import_loader_function"
    /\ calls[1].out.kind = "raise"

\* C7: a loader reference that does not resolve ends the invocation with the
\* resolver's own LoaderNotFound error, neither wrapped nor reclassified as
\* LoaderExecutionFailed; no loader and no run is called and the exit status
\* is 1; and an invocation that ends with LoaderExecutionFailed is one whose
\* loader was resolved and called.
C7_ResolutionFailure ==
    /\ ResolutionFailed =>
          /\ Len(calls) = 1
          /\ pc \in {"except", "done"}
          /\ raised = calls[1].out.exc
          /\ raised.text = "LoaderNotFound"
          /\ raised.detail = loader_import_path[1]
          /\ pc = "done" =>
                /\ outcome.kind = "exit"
                /\ outcome.status = 1
                /\ outcome.exc = calls[1].out.exc
    /\ (pc = "done" /\ outcome.exc.text = "Error executing loader") =>
          /\ Resolved
          /\ Len(calls) = 3
          /\ LoaderRaised(3)

C7_Witness ==
    /\ pc = "done"
    /\ loader_import_path = Some(<<"pkg", "mod", "nope">>)
    /\ loader_kwargs_raw = <<<<"b", "a", "d">>>>
    /\ ResolutionFailed
    /\ outcome.status = 1
    /\ outcome.exc.text = "LoaderNotFound"

\* ---------------------------------------------------------------------------
\* C8
\* ---------------------------------------------------------------------------

CollaboratorRaised(i) ==
    /\ calls[i].fn \in {"default_loader", "run"}
    /\ calls[i].out.kind = "raise"

\* C8 as stated: whatever default_loader or run raises leaves entrypoint as it
\* is, never logged and turned into exit status 1.
C8_Original ==
    \A i \in 1..Len(calls) :
        (CollaboratorRaised(i) /\ pc = "done") =>
            /\ outcome.kind = "propagated"
            /\ outcome.exc = calls[i].out.exc

\* C8 amended: a failure of default_loader or run is never wrapped or
\* reclassified; one that is not a LittleCheesemongerError leaves entrypoint
\* as it is, and one that is a LittleCheesemongerError is caught by the outer
\* handler, logged as it is and turned into exit status 1.
C8_Collaborators ==
    \A i \in 1..Len(calls) :
        CollaboratorRaised(i) =>
            LET e == calls[i].out.exc
            IN  /\ i = Len(calls)
                /\ pc \in {"except", "done"}
                /\ raised = e
                /\ pc = "done" =>
                      /\ outcome.exc = e
                      /\ IF e.cls = "LittleCheesemongerError"
                         THEN outcome.kind = "exit" /\ outcome.status = 1
                         ELSE outcome.kind = "propagated"

C8_Witness ==
    /\ pc = "done"
    /\ Len(calls) = 2
    /\ calls[1].fn = "default_loader"
    /\ CollaboratorRaised(2)
    /\ calls[2].out.exc.cls = "ValueError"
    /\ outcome.kind = "propagated"
    /\ outcome.exc.cls = "ValueError"

\* ---------------------------------------------------------------------------
\* C9
\* ---------------------------------------------------------------------------

\* C9 as stated: with a loader reference, the keyword strings are parsed
\* before the loader reference is resolved.
C9_Original ==
    (pc /= "idle" /\ Custom) =>
        \A j \in CallsTo("import_loader_function") :
            \E i \in 1..(j - 1) : calls[i].fn = "process_kwargs"

\* C9 amended: with a loader reference, the steps come in the order argument
\* validation, loader resolution (import_loader_function), keyword parsing
\* (process_kwargs), loader invocation, run: the loader reference is resolved
\* before the keyword strings are parsed.
C9_Order ==
    (pc /= "idle" /\ Custom) =>
        /\ IsPrefix(Fns, <<"import_loader_function", "process_kwargs", "loader", "run">>)
        /\ pc = "validate" => calls = <<>>
        /\ pc = "kwargs" => Fns = <<"import_loader_function">>
        /\ pc = "loader" => Fns = <<"import_loader_function", "process_kwargs">>

C9_Witness ==
    /\ pc = "done"
    /\ Custom
    /\ Fns = <<"import_loader_function", "process_kwargs", "loader", "run">>

\* ---------------------------------------------------------------------------
\* C10
\* ---------------------------------------------------------------------------

\* C10 as stated: over any sequence of invocations the template is never the
\* object handed to run, and every invocation starts from the same template
\* content.
C10_Original ==
    /\ \A i \in CallsTo("run") : calls[i].cfg /= "TEMPLATE"
    /\ pc = "validate" => DEFAULT_CONFIGURATION = "default"

Collaborators == {"import_loader_function", "loader", "default_loader", "run"}

LoaderFns == {"loader", "default_loader"}

C10_Step ==
    \* the template changes only in a step that calls a collaborator
    /\ DEFAULT_CONFIGURATION' /= DEFAULT_CONFIGURATION =>
          /\ Len(calls') = Len(calls) + 1
          /\ calls'[Len(calls')].fn \in Collaborators
    \* from the copy of line 54 until a loader returns, the local is the copy
    /\ pc' \in {"import", "kwargs", "loader", "default"} => configuration' = "COPY"
    \* the local is the template only as the return value of a loader
    /\ configuration' = "TEMPLATE" =>
          /\ calls' /= <<>>
          /\ \E j \in 1..Len(calls') :
                /\ calls'[j].fn \in LoaderFns
                /\ calls'[j].out.kind = "return"
                /\ calls'[j].out.value = "TEMPLATE"
    \* run is handed the value the loader called just before returned
    /\ \A i \in 1..Len(calls') :
          calls'[i].fn = "run" =>
              /\ i > 1
              /\ calls'[i - 1].fn \in LoaderFns
              /\ calls'[i - 1].out.kind = "return"
              /\ calls'[i].cfg = calls'[i - 1].out.value
              /\ calls'[i].cfg /= "COPY"

\* C10 amended: the statements of entrypoint themselves never modify the
\* template, whose content changes only during a call to a collaborator
\* (import_loader_function, the custom loader, default_loader, run);
\* entrypoint reads the template only to take a copy, and its local
\* configuration is that copy until a loader returns; run is never handed
\* that copy but always the value the loader (custom or default) returned, so
\* it is handed the template itself exactly when the loader returned the
\* template.
C10_Template == [][C10_Step]_vars

C10_Witness ==
    /\ pc = "done"
    /\ Len(calls) = 2
    /\ calls[1].fn = "default_loader"
    /\ calls[1].out.value = "TEMPLATE"
    /\ calls[2].fn = "run"
    /\ calls[2].cfg = "TEMPLATE"
    /\ DEFAULT_CONFIGURATION = "mutated"

====
